---- MODULE Spec2Model ----
(***************************************************************************)
(* The sampling-based graph dynamic planner of FaSTrack                    *)
(* (GraphDynamicPlanner::Plan / RecursivePlan / ExtractTrajectory /        *)
(* UpdateDescendants) as a state machine.  States of the planner's         *)
(* configuration space are integers on a line, times and costs are         *)
(* integers, and two states are within epsilon of each other exactly when  *)
(* they are equal.  Nodes live in an arena (the sequence nodes) and are    *)
(* referred to by their index; NullNode stands for nullptr.                *)
(***************************************************************************)
EXTENDS Integers, Sequences, FiniteSets, TLC

VARIABLES
  pc,                 \* position of the Plan call
  now,                \* ros::Time::now(), in logical time steps
  initial_call_time,  \* Plan's initial_call_time
  nodes,              \* arena of Node objects; node id = index
  graph,              \* SearchableSet graph: node ids in insertion order
  goals,              \* SearchableSet goals: node ids in insertion order
  outbound,           \* RecursivePlan's outbound argument
  sample,             \* the iteration's sample
  neighbors,          \* neighbors the attach loop has yet to try
  sample_node,        \* the iteration's sample_node (NullNode: nullptr)
  neighboring_goals,  \* goals the connection loop has yet to try
  child,              \* the iteration's child (NullNode: nullptr)
  queue,              \* UpdateDescendants' BFS queue
  ud_start,           \* UpdateDescendants' start argument
  current_node,       \* UpdateDescendants' current_node (NullNode: none)
  ii,                 \* UpdateDescendants' child index (1-based)
  ex_start,           \* ExtractTrajectory's start argument
  ex_node,            \* ExtractTrajectory's node
  trajs,              \* ExtractTrajectory's accumulated list
  traj,               \* the trajectory RecursivePlan returned to Plan
  plan_result,        \* the trajectory Plan returned
  timed_out,          \* the main loop was left through "Ran out of time"
  rp_calls,           \* RecursivePlan invocations made by this Plan call
  subplan_nonempty,   \* some SubPlan call of this Plan call returned a non-empty trajectory
  late_subplans,      \* SubPlan calls begun after max_runtime_ had elapsed
  late_updates,       \* UpdateDescendants runs begun after max_runtime_ had elapsed
  errors,             \* messages ExtractTrajectory logged with ROS_ERROR in this Plan call
  traj_pc,            \* life of the Trajectory object: "none", "constructed", "crashed"
  states_,            \* Trajectory::states_
  times_,             \* Trajectory::times_
  ctor,               \* what the Trajectory constructor logged and which indices of times_ it accessed
  interp,             \* the last Interpolate call on the Trajectory object and its result
  tracker_pc,         \* life of the Tracker object: "none", "constructed", "returned"
  param_server,       \* keys present on the ROS parameter server of the tracker node
  tracker,            \* the Tracker's member fields
  steps,              \* steps Tracker::Initialize ran, in order, with their results
  registered,         \* services, subscribers, publishers and timers registered with ROS, in order
  ret                 \* what Tracker::Initialize returned ("none": not yet)

planner_vars == << pc, now, initial_call_time, nodes, graph, goals, outbound, sample,
           neighbors, sample_node, neighboring_goals, child, queue, ud_start,
           current_node, ii, ex_start, ex_node, trajs, traj, plan_result,
           timed_out, rp_calls, subplan_nonempty, late_subplans, late_updates,
           errors >>

trajectory_vars == << traj_pc, states_, times_, ctor, interp >>

tracker_vars == << tracker_pc, param_server, tracker, steps, registered, ret >>

vars == << planner_vars, trajectory_vars, tracker_vars >>

----------------------------------------------------------------------------
(* Bounds of the model and parameters of the planner.                      *)

MaxState == 2
max_runtime_ == 4
num_neighbors_ == 2
search_radius_ == 1
kInfinity == 1000

States == 0..MaxState
StartTimes == {0, 1}
Durations == {0, 1}
NullNode == 0

----------------------------------------------------------------------------
(* Trajectory<S>: parallel lists of states and times.                      *)

EmptyTrajectory == [states |-> << >>, times |-> << >>]

Size(t) == Len(t.states)

Duration(t) == IF Len(t.times) = 0 THEN 0 ELSE t.times[Len(t.times)] - t.times[1]

ResetFirstTime(t, t0) ==
  IF Len(t.times) = 0 THEN t
  ELSE [t EXCEPT !.times = [k \in 1..Len(t.times) |-> t.times[k] + (t0 - t.times[1])]]

(* Variant: the pieces are joined with the times they carry.               *)
RECURSIVE ConcatenateAsIs(_)
ConcatenateAsIs(list) ==
  IF list = << >> THEN EmptyTrajectory
  ELSE IF Len(list) = 1 THEN list[1]
  ELSE LET front == ConcatenateAsIs(SubSeq(list, 1, Len(list) - 1))
           last  == list[Len(list)]
       IN [states |-> front.states \o last.states,
           times  |-> front.times \o last.times]

RECURSIVE Concatenate(_)
Concatenate(list) ==
  IF list = << >> THEN EmptyTrajectory
  ELSE IF Len(list) = 1 THEN list[1]
  ELSE LET front == Concatenate(SubSeq(list, 1, Len(list) - 1))
           last  == list[Len(list)]
           moved == IF Size(front) = 0 THEN last
                    ELSE ResetFirstTime(last, front.times[Len(front.times)])
       IN [states |-> front.states \o moved.states,
           times  |-> front.times \o moved.times]

Cost(t) == Duration(t)

(* The sub-planner is an oracle: it fails (empty trajectory) or returns a  *)
(* trajectory that begins at start_time in state from and ends in state to.*)
SubPlan(from, to, start_time) ==
  {EmptyTrajectory} \cup
  { [states |-> <<from, to>>, times |-> <<start_time, start_time + d>>] : d \in Durations }

(* Variant: the size test also accepts the empty trajectory.               *)
SubPlanSucceededAlways(sub_plan) == Size(sub_plan) >= 0

SubPlanSucceeded(sub_plan) == Size(sub_plan) > 0

----------------------------------------------------------------------------
(* Node and SearchableSet.                                                 *)

NodeCreate ==
  [state |-> 0, time |-> kInfinity, cost_to_come |-> kInfinity, is_viable |-> FALSE,
   best_parent |-> NullNode, children |-> << >>, trajs_to_children |-> << >>]

Distance(a, b) == IF a >= b THEN a - b ELSE b - a

(* Variant: no neighbor is ever found too close.                           *)
WithinEpsilonNever(a, b) == Distance(a, b) < 0

WithinEpsilon(a, b) == Distance(a, b) = 0

NodeEq(a, b) == a.state = b.state

InitialNode(set) == set[1]

RECURSIVE NearestFirst(_, _, _, _, _)
NearestFirst(n, set, x, left, k) ==
  IF k = 0 \/ left = {} THEN << >>
  ELSE LET d(i) == Distance(n[set[i]].state, x)
           best == CHOOSE i \in left :
                     \A j \in left : d(i) < d(j) \/ (d(i) = d(j) /\ i <= j)
       IN <<set[best]>> \o NearestFirst(n, set, x, left \ {best}, k - 1)

KnnSearch(n, set, x, k) == NearestFirst(n, set, x, DOMAIN set, k)

RadiusSearch(n, set, x, r) ==
  SelectSeq(set, LAMBDA id : Distance(n[id].state, x) <= r)

----------------------------------------------------------------------------
(* Plan: set-up.                                                           *)

Elapsed == now - initial_call_time

StartNode(start, start_time) ==
  [NodeCreate EXCEPT !.state = start, !.time = start_time,
                     !.cost_to_come = 0, !.is_viable = TRUE]

GoalNode(goal) ==
  [NodeCreate EXCEPT !.state = goal, !.time = kInfinity,
                     !.cost_to_come = kInfinity, !.is_viable = TRUE]

(* No Trajectory object has been constructed yet.                          *)
TrajectoryInit ==
  /\ traj_pc = "none"
  /\ states_ = << >>
  /\ times_ = << >>
  /\ ctor = [truncated |-> FALSE, fixed |-> 0, accessed |-> {}]
  /\ interp = [t |-> 0, branch |-> "none", numer |-> 0, denom |-> 1,
               read |-> {}, outcome |-> "none"]

(* Tracker(): "initialized_(false)"; strings start empty, time_step_ has   *)
(* no initial value.                                                       *)
TrackerFields ==
  [tracker_state_topic_ |-> "", planner_state_topic_ |-> "",
   control_topic_ |-> "", bound_name_ |-> "", planner_dynamics_name_ |-> "",
   time_step_ |-> "unset", initialized_ |-> FALSE]

(* The tracker node has not been launched yet.                             *)
TrackerInit ==
  /\ tracker_pc = "none"
  /\ param_server = {}
  /\ tracker = TrackerFields
  /\ steps = << >>
  /\ registered = << >>
  /\ ret = "none"

PlannerInit ==
  /\ pc = "idle"
  /\ now = 0
  /\ initial_call_time = 0
  /\ nodes = << >>
  /\ graph = << >>
  /\ goals = << >>
  /\ outbound = TRUE
  /\ sample = 0
  /\ neighbors = << >>
  /\ sample_node = NullNode
  /\ neighboring_goals = << >>
  /\ child = NullNode
  /\ queue = << >>
  /\ ud_start = NullNode
  /\ current_node = NullNode
  /\ ii = 0
  /\ ex_start = NullNode
  /\ ex_node = NullNode
  /\ trajs = << >>
  /\ traj = EmptyTrajectory
  /\ plan_result = EmptyTrajectory
  /\ timed_out = FALSE
  /\ rp_calls = << >>
  /\ subplan_nonempty = FALSE
  /\ late_subplans = 0
  /\ late_updates = 0
  /\ errors = {}

Init == PlannerInit /\ TrajectoryInit /\ TrackerInit

Plan(start, goal, start_time) ==
  /\ pc = "idle"
  /\ initial_call_time' = now
  /\ nodes' = << StartNode(start, start_time), GoalNode(goal) >>
  /\ graph' = <<1>>
  /\ goals' = <<2>>
  /\ outbound' = TRUE
  /\ rp_calls' = << [outbound |-> TRUE, root |-> 1] >>
  /\ pc' = "loop"
  /\ UNCHANGED << now, sample, neighbors, sample_node, neighboring_goals, child,
                  queue, ud_start, current_node, ii, ex_start, ex_node, trajs,
                  traj, plan_result, timed_out, subplan_nonempty,
                  late_subplans, late_updates >>
  /\ UNCHANGED << errors, trajectory_vars, tracker_vars >>

----------------------------------------------------------------------------
(* RecursivePlan: the main loop.                                           *)

(* Variant: the deadline test lets an iteration begin at the deadline.     *)
LoopConditionInclusive == Elapsed <= max_runtime_

LoopCondition == Elapsed < max_runtime_

Late == IF Elapsed >= max_runtime_ THEN 1 ELSE 0

(* (1), (2): sample a point and get its k nearest neighbors.               *)
Sample(x) ==
  /\ pc = "loop"
  /\ LoopCondition
  /\ sample' = x
  /\ neighbors' = KnnSearch(nodes, graph, x, num_neighbors_)
  /\ sample_node' = NullNode
  /\ child' = NullNode
  /\ pc' = "attach"
  /\ UNCHANGED << now, initial_call_time, nodes, graph, goals, outbound,
                  neighboring_goals, queue, ud_start, current_node, ii,
                  ex_start, ex_node, trajs, traj, plan_result, timed_out,
                  rp_calls, subplan_nonempty, late_subplans, late_updates >>
  /\ UNCHANGED << errors, trajectory_vars, tracker_vars >>

(* Variant: the new node starts out viable.                                *)
AttachNodeViable(n, parent, x, sub_plan) ==
  LET new == [NodeCreate EXCEPT
                !.state = x,
                !.time = n[parent].time + Duration(sub_plan),
                !.cost_to_come = n[parent].cost_to_come + Cost(sub_plan),
                !.is_viable = TRUE,
                !.best_parent = parent,
                !.children = << >>,
                !.trajs_to_children = << >>]
      id  == Len(n) + 1
  IN Append([n EXCEPT ![parent].children = Append(@, id),
                      ![parent].trajs_to_children = Append(@, sub_plan)],
            new)

(* "Add to graph" and "Update parent".                                     *)
AttachNode(n, parent, x, sub_plan) ==
  LET new == [NodeCreate EXCEPT
                !.state = x,
                !.time = n[parent].time + Duration(sub_plan),
                !.cost_to_come = n[parent].cost_to_come + Cost(sub_plan),
                !.is_viable = FALSE,
                !.best_parent = parent,
                !.children = << >>,
                !.trajs_to_children = << >>]
      id  == Len(n) + 1
  IN Append([n EXCEPT ![parent].children = Append(@, id),
                      ![parent].trajs_to_children = Append(@, sub_plan)],
            new)

(* A neighbor too close to the sample is rejected without a SubPlan call.  *)
AttachSkip ==
  /\ pc = "attach"
  /\ neighbors # << >>
  /\ WithinEpsilon(nodes[Head(neighbors)].state, sample)
  /\ neighbors' = Tail(neighbors)
  /\ UNCHANGED << pc, now, initial_call_time, nodes, graph, goals, outbound,
                  sample, sample_node, neighboring_goals, child, queue,
                  ud_start, current_node, ii, ex_start, ex_node, trajs, traj,
                  plan_result, timed_out, rp_calls, subplan_nonempty,
                  late_subplans, late_updates >>
  /\ UNCHANGED << errors, trajectory_vars, tracker_vars >>

(* (3): plan a sub-path from the neighbor to the sample; on success create *)
(* sample_node, leave the loop and (4) look up the nearby goals.           *)
AttachSubPlan ==
  /\ pc = "attach"
  /\ neighbors # << >>
  /\ ~WithinEpsilon(nodes[Head(neighbors)].state, sample)
  /\ \E sub_plan \in SubPlan(nodes[Head(neighbors)].state, sample,
                             nodes[Head(neighbors)].time) :
       /\ now' = now + 1
       /\ late_subplans' = late_subplans + Late
       /\ subplan_nonempty' = (subplan_nonempty \/ Size(sub_plan) > 0)
       /\ IF SubPlanSucceeded(sub_plan)
          THEN /\ nodes' = AttachNode(nodes, Head(neighbors), sample, sub_plan)
               /\ sample_node' = Len(nodes) + 1
               /\ neighbors' = << >>
               /\ neighboring_goals' = RadiusSearch(nodes, goals, sample, search_radius_)
               /\ pc' = "goals"
          ELSE /\ neighbors' = Tail(neighbors)
               /\ UNCHANGED << nodes, sample_node, neighboring_goals, pc >>
  /\ UNCHANGED << initial_call_time, graph, goals, outbound, sample, child,
                  queue, ud_start, current_node, ii, ex_start, ex_node, trajs,
                  traj, plan_result, timed_out, rp_calls, late_updates >>
  /\ UNCHANGED << errors, trajectory_vars, tracker_vars >>

(* "Sample a new point if there was no good way to get here."              *)
AttachNone ==
  /\ pc = "attach"
  /\ neighbors = << >>
  /\ sample_node = NullNode
  /\ pc' = "loop"
  /\ UNCHANGED << now, initial_call_time, nodes, graph, goals, outbound,
                  sample, neighbors, sample_node, neighboring_goals, child,
                  queue, ud_start, current_node, ii, ex_start, ex_node, trajs,
                  traj, plan_result, timed_out, rp_calls, subplan_nonempty,
                  late_subplans, late_updates >>
  /\ UNCHANGED << errors, trajectory_vars, tracker_vars >>

(* "Update sample node to point to child."                                 *)
ConnectChild(n, from, goal, sub_plan) ==
  [n EXCEPT ![from].children = Append(@, goal),
            ![from].trajs_to_children = Append(@, sub_plan)]

(* (4): try the next nearby goal; goals that are not viable are skipped.   *)
GoalStep ==
  /\ pc = "goals"
  /\ neighboring_goals # << >>
  /\ LET goal == Head(neighboring_goals) IN
       IF ~nodes[goal].is_viable
       THEN /\ neighboring_goals' = Tail(neighboring_goals)
            /\ UNCHANGED << now, late_subplans, nodes, child, subplan_nonempty, pc >>
       ELSE \E sub_plan \in SubPlan(sample, nodes[goal].state, nodes[sample_node].time) :
              /\ now' = now + 1
              /\ late_subplans' = late_subplans + Late
              /\ subplan_nonempty' = (subplan_nonempty \/ Size(sub_plan) > 0)
              /\ IF SubPlanSucceeded(sub_plan)
                 THEN /\ child' = goal
                      /\ nodes' = ConnectChild(nodes, sample_node, goal, sub_plan)
                      /\ neighboring_goals' = << >>
                      /\ pc' = "connect"
                 ELSE /\ neighboring_goals' = Tail(neighboring_goals)
                      /\ UNCHANGED << nodes, child, pc >>
  /\ UNCHANGED << initial_call_time, graph, goals, outbound, sample, neighbors,
                  sample_node, queue, ud_start, current_node, ii, ex_start,
                  ex_node, trajs, traj, plan_result, timed_out, rp_calls,
                  late_updates >>
  /\ UNCHANGED << errors, trajectory_vars, tracker_vars >>

(* child == nullptr: the recursive call of step (5) is commented out, so   *)
(* the loop goes on to its next iteration.                                 *)
ChildNull ==
  /\ pc = "goals"
  /\ neighboring_goals = << >>
  /\ child = NullNode
  /\ pc' = "loop"
  /\ UNCHANGED << now, initial_call_time, nodes, graph, goals, outbound,
                  sample, neighbors, sample_node, neighboring_goals, child,
                  queue, ud_start, current_node, ii, ex_start, ex_node, trajs,
                  traj, plan_result, timed_out, rp_calls, subplan_nonempty,
                  late_subplans, late_updates >>
  /\ UNCHANGED << errors, trajectory_vars, tracker_vars >>

(* "Reached the goal. Update goal to ensure it always has the best parent."*)
NeedsNewParent(n, c, s) ==
  \/ n[c].best_parent = NullNode
  \/ n[n[c].best_parent].cost_to_come > n[s].cost_to_come

SetBestParent(n, c, s) == [n EXCEPT ![c].best_parent = s]

Connect ==
  /\ pc = "connect"
  /\ IF NeedsNewParent(nodes, child, sample_node)
     THEN /\ nodes' = SetBestParent(nodes, child, sample_node)
          /\ queue' = <<sample_node>>
          /\ ud_start' = IF outbound THEN InitialNode(graph) ELSE InitialNode(goals)
          /\ late_updates' = late_updates + Late
          /\ pc' = "bfs"
     ELSE /\ pc' = "mark"
          /\ UNCHANGED << nodes, queue, ud_start, late_updates >>
  /\ UNCHANGED << now, initial_call_time, graph, goals, outbound, sample,
                  neighbors, sample_node, neighboring_goals, child,
                  current_node, ii, ex_start, ex_node, trajs, traj,
                  plan_result, timed_out, rp_calls, subplan_nonempty,
                  late_subplans >>
  /\ UNCHANGED << errors, trajectory_vars, tracker_vars >>

----------------------------------------------------------------------------
(* UpdateDescendants: breadth-first search from node, halting at start.    *)

InForLoop ==
  /\ current_node # NullNode
  /\ ii <= Len(nodes[current_node].children)

(* "Pop oldest node."  The start node is skipped.                          *)
BfsPop ==
  /\ pc = "bfs"
  /\ ~InForLoop
  /\ queue # << >>
  /\ queue' = Tail(queue)
  /\ IF Head(queue) = ud_start
     THEN /\ current_node' = NullNode
          /\ ii' = 0
     ELSE /\ current_node' = Head(queue)
          /\ ii' = 1
  /\ UNCHANGED << pc, now, initial_call_time, nodes, graph, goals, outbound,
                  sample, neighbors, sample_node, neighboring_goals, child,
                  ud_start, ex_start, ex_node, trajs, traj, plan_result,
                  timed_out, rp_calls, subplan_nonempty, late_subplans,
                  late_updates >>
  /\ UNCHANGED << errors, trajectory_vars, tracker_vars >>

(* "Update trajectory to child."                                           *)
ResetEdge(n, cur, k) ==
  [n EXCEPT ![cur].trajs_to_children[k] = ResetFirstTime(@, n[cur].time)]

(* Variant: parent and child are mixed up in the best_parent assignment.   *)
ReattachSwapped(n, cur, k) ==
  LET c == n[cur].children[k] IN
  [n EXCEPT ![cur].best_parent = c,
            ![c].time = n[cur].time + Duration(n[cur].trajs_to_children[k]),
            ![c].cost_to_come = n[cur].cost_to_come + Cost(n[cur].trajs_to_children[k])]

(* Variant: the child's cost to come is not refreshed.                     *)
ReattachNoCost(n, cur, k) ==
  LET c == n[cur].children[k] IN
  [n EXCEPT ![c].best_parent = cur,
            ![c].time = n[cur].time + Duration(n[cur].trajs_to_children[k])]

(* Variant: the child's time is not refreshed.                             *)
ReattachNoTime(n, cur, k) ==
  LET c == n[cur].children[k] IN
  [n EXCEPT ![c].best_parent = cur,
            ![c].cost_to_come = n[cur].cost_to_come + Cost(n[cur].trajs_to_children[k])]

(* "If so, also update time and cost to come."                             *)
Reattach(n, cur, k) ==
  LET c == n[cur].children[k] IN
  [n EXCEPT ![c].best_parent = cur,
            ![c].time = n[cur].time + Duration(n[cur].trajs_to_children[k]),
            ![c].cost_to_come = n[cur].cost_to_come + Cost(n[cur].trajs_to_children[k])]

(* Variant: the current node is pushed back onto the queue in place of the *)
(* child.                                                                  *)
BfsChildRequeue ==
  /\ pc = "bfs"
  /\ InForLoop
  /\ LET c  == nodes[current_node].children[ii]
         n1 == ResetEdge(nodes, current_node, ii)
     IN /\ queue' = Append(queue, current_node)
        /\ IF n1[c].best_parent # NullNode
           THEN /\ nodes' = Reattach(n1, current_node, ii)
                /\ ii' = ii + 1
                /\ pc' = pc
           ELSE \/ /\ nodes' = Reattach(n1, current_node, ii)
                   /\ ii' = ii + 1
                   /\ pc' = pc
                \/ /\ nodes' = n1
                   /\ ii' = ii + 1
                   /\ pc' = pc
                \/ /\ nodes' = n1
                   /\ ii' = ii
                   /\ pc' = "crashed"
  /\ UNCHANGED << now, initial_call_time, graph, goals, outbound, sample,
                  neighbors, sample_node, neighboring_goals, child, ud_start,
                  current_node, ex_start, ex_node, trajs, traj, plan_result,
                  timed_out, rp_calls, subplan_nonempty, late_subplans,
                  late_updates >>
  /\ UNCHANGED << errors, trajectory_vars, tracker_vars >>

(* One pass of the for loop over current_node's children.  The condition   *)
(* child->best_parent != nullptr || child->best_parent->cost_to_come > ... *)
(* reads through a null pointer when the child has no best parent: the     *)
(* program may stop there, or go on with either outcome of the comparison. *)
BfsChild ==
  /\ pc = "bfs"
  /\ InForLoop
  /\ LET c  == nodes[current_node].children[ii]
         n1 == ResetEdge(nodes, current_node, ii)
     IN /\ queue' = Append(queue, c)
        /\ IF n1[c].best_parent # NullNode
           THEN /\ nodes' = Reattach(n1, current_node, ii)
                /\ ii' = ii + 1
                /\ pc' = pc
           ELSE \/ /\ nodes' = Reattach(n1, current_node, ii)
                   /\ ii' = ii + 1
                   /\ pc' = pc
                \/ /\ nodes' = n1
                   /\ ii' = ii + 1
                   /\ pc' = pc
                \/ /\ nodes' = n1
                   /\ ii' = ii
                   /\ pc' = "crashed"
  /\ UNCHANGED << now, initial_call_time, graph, goals, outbound, sample,
                  neighbors, sample_node, neighboring_goals, child, ud_start,
                  current_node, ex_start, ex_node, trajs, traj, plan_result,
                  timed_out, rp_calls, subplan_nonempty, late_subplans,
                  late_updates >>
  /\ UNCHANGED << errors, trajectory_vars, tracker_vars >>

(* The queue is empty: UpdateDescendants returns to RecursivePlan.         *)
BfsReturn ==
  /\ pc = "bfs"
  /\ ~InForLoop
  /\ queue = << >>
  /\ now' = now + 1
  /\ current_node' = NullNode
  /\ ii' = 0
  /\ ud_start' = NullNode
  /\ pc' = "mark"
  /\ UNCHANGED << initial_call_time, nodes, graph, goals, outbound, sample,
                  neighbors, sample_node, neighboring_goals, child, queue,
                  ex_start, ex_node, trajs, traj, plan_result, timed_out,
                  rp_calls, subplan_nonempty, late_subplans, late_updates >>
  /\ UNCHANGED << errors, trajectory_vars, tracker_vars >>

----------------------------------------------------------------------------
(* "Make sure all ancestors are viable."                                   *)

(* Variant: the ancestors are left as they are.                            *)
MarkViableNone(n, parent) == n

RECURSIVE MarkViable(_, _)
MarkViable(n, parent) ==
  IF parent # NullNode /\ ~n[parent].is_viable
  THEN MarkViable([n EXCEPT ![parent].is_viable = TRUE], n[parent].best_parent)
  ELSE n

(* Variant: the call does not return after a connection and keeps on       *)
(* sampling.                                                               *)
MarkAncestorsNoReturn ==
  /\ pc = "mark"
  /\ nodes' = MarkViable(nodes, sample_node)
  /\ pc' = "loop"
  /\ UNCHANGED << now, initial_call_time, graph, goals, outbound, sample,
                  neighbors, sample_node, neighboring_goals, child, queue,
                  ud_start, current_node, ii, ex_start, ex_node, trajs, traj,
                  plan_result, timed_out, rp_calls, subplan_nonempty,
                  late_subplans, late_updates >>
  /\ UNCHANGED << errors, trajectory_vars, tracker_vars >>

(* After marking: an outbound call extracts the trajectory from the goal   *)
(* set's initial node back to the graph's; any other call returns a dummy. *)
MarkAncestors ==
  /\ pc = "mark"
  /\ nodes' = MarkViable(nodes, sample_node)
  /\ IF outbound
     THEN /\ ex_start' = InitialNode(graph)
          /\ ex_node' = InitialNode(goals)
          /\ trajs' = << >>
          /\ pc' = "extract"
          /\ UNCHANGED traj
     ELSE /\ traj' = EmptyTrajectory
          /\ pc' = "rp_return"
          /\ UNCHANGED << ex_start, ex_node, trajs >>
  /\ UNCHANGED << now, initial_call_time, graph, goals, outbound, sample,
                  neighbors, sample_node, neighboring_goals, child, queue,
                  ud_start, current_node, ii, plan_result, timed_out, rp_calls,
                  subplan_nonempty, late_subplans, late_updates >>
  /\ UNCHANGED << errors, trajectory_vars, tracker_vars >>

----------------------------------------------------------------------------
(* "Ran out of time."                                                      *)

(* Variant: the test for a loop at start is missing.                       *)
RanOutOfTimeNoLoopTest ==
  /\ pc = "loop"
  /\ ~LoopCondition
  /\ timed_out' = TRUE
  /\ IF ~outbound
     THEN /\ traj' = EmptyTrajectory
          /\ pc' = "rp_return"
          /\ UNCHANGED << ex_start, ex_node, trajs >>
     ELSE /\ ex_start' = InitialNode(graph)
          /\ ex_node' = InitialNode(graph)
          /\ trajs' = << >>
          /\ pc' = "extract"
          /\ UNCHANGED traj
  /\ UNCHANGED << now, initial_call_time, nodes, graph, goals, outbound,
                  sample, neighbors, sample_node, neighboring_goals, child,
                  queue, ud_start, current_node, ii, plan_result, rp_calls,
                  subplan_nonempty, late_subplans, late_updates >>
  /\ UNCHANGED << errors, trajectory_vars, tracker_vars >>

RanOutOfTime ==
  /\ pc = "loop"
  /\ ~LoopCondition
  /\ timed_out' = TRUE
  /\ IF ~outbound
     THEN /\ traj' = EmptyTrajectory
          /\ pc' = "rp_return"
          /\ UNCHANGED << ex_start, ex_node, trajs >>
     ELSE IF nodes[InitialNode(graph)].best_parent = NullNode
     THEN /\ traj' = EmptyTrajectory
          /\ pc' = "rp_return"
          /\ UNCHANGED << ex_start, ex_node, trajs >>
     ELSE /\ ex_start' = InitialNode(graph)
          /\ ex_node' = InitialNode(graph)
          /\ trajs' = << >>
          /\ pc' = "extract"
          /\ UNCHANGED traj
  /\ UNCHANGED << now, initial_call_time, nodes, graph, goals, outbound,
                  sample, neighbors, sample_node, neighboring_goals, child,
                  queue, ud_start, current_node, ii, plan_result, rp_calls,
                  subplan_nonempty, late_subplans, late_updates >>
  /\ UNCHANGED << errors, trajectory_vars, tracker_vars >>

----------------------------------------------------------------------------
(* ExtractTrajectory: walk best_parent links from goal back to start.      *)

(* Variant: the walk stops as soon as node equals start.                   *)
ExtractConditionNoLoop(n, node, start, list) == ~NodeEq(n[node], n[start])

ExtractCondition(n, node, start, list) ==
  \/ ~NodeEq(n[node], n[start])
  \/ (NodeEq(n[node], n[start]) /\ Len(list) = 0)

(* "Find node as child of parent": the first child equal to node.          *)
FindChild(n, parent, node) ==
  LET hits == { k \in 1..Len(n[parent].children) :
                  NodeEq(n[n[parent].children[k]], n[node]) }
  IN IF hits = {} THEN 0 ELSE CHOOSE k \in hits : \A j \in hits : k <= j

(* Variant: the sub-plans are accumulated in the order they are met.       *)
PushBack(list, t) == Append(list, t)

PushFront(list, t) == <<t>> \o list

(* Variant: a null parent ends the walk without an error message.         *)
ExtractStepSilent ==
  /\ pc = "extract"
  /\ ExtractCondition(nodes, ex_node, ex_start, trajs)
  /\ LET parent == nodes[ex_node].best_parent IN
       IF parent = NullNode
       THEN /\ errors' = errors
            /\ traj' = Concatenate(trajs)
            /\ pc' = "rp_return"
            /\ UNCHANGED << ex_node, trajs >>
       ELSE /\ trajs' = IF FindChild(nodes, parent, ex_node) = 0 THEN trajs
                        ELSE PushFront(trajs,
                               nodes[parent].trajs_to_children[FindChild(nodes, parent, ex_node)])
            /\ errors' = IF /\ FindChild(nodes, parent, ex_node) = 0
                            /\ nodes[parent].children # << >>
                         THEN errors \cup {"Parent/child inconsistency."}
                         ELSE errors
            /\ ex_node' = parent
            /\ UNCHANGED << traj, pc >>
  /\ UNCHANGED << now, initial_call_time, nodes, graph, goals, outbound,
                  sample, neighbors, sample_node, neighboring_goals, child,
                  queue, ud_start, current_node, ii, ex_start, plan_result,
                  timed_out, rp_calls, subplan_nonempty, late_subplans,
                  late_updates >>
  /\ UNCHANGED << trajectory_vars, tracker_vars >>

(* One pass of the while loop; a null parent ends the walk.                *)
ExtractStep ==
  /\ pc = "extract"
  /\ ExtractCondition(nodes, ex_node, ex_start, trajs)
  /\ LET parent == nodes[ex_node].best_parent IN
       IF parent = NullNode
       THEN /\ errors' = errors \cup {"Parent was null."}
            /\ traj' = Concatenate(trajs)
            /\ pc' = "rp_return"
            /\ UNCHANGED << ex_node, trajs >>
       ELSE /\ trajs' = IF FindChild(nodes, parent, ex_node) = 0 THEN trajs
                        ELSE PushFront(trajs,
                               nodes[parent].trajs_to_children[FindChild(nodes, parent, ex_node)])
            /\ errors' = IF /\ FindChild(nodes, parent, ex_node) = 0
                            /\ nodes[parent].children # << >>
                         THEN errors \cup {"Parent/child inconsistency."}
                         ELSE errors
            /\ ex_node' = parent
            /\ UNCHANGED << traj, pc >>
  /\ UNCHANGED << now, initial_call_time, nodes, graph, goals, outbound,
                  sample, neighbors, sample_node, neighboring_goals, child,
                  queue, ud_start, current_node, ii, ex_start, plan_result,
                  timed_out, rp_calls, subplan_nonempty, late_subplans,
                  late_updates >>
  /\ UNCHANGED << trajectory_vars, tracker_vars >>

(* "Concatenate into a single trajectory."                                 *)
ExtractReturn ==
  /\ pc = "extract"
  /\ ~ExtractCondition(nodes, ex_node, ex_start, trajs)
  /\ traj' = Concatenate(trajs)
  /\ pc' = "rp_return"
  /\ UNCHANGED << now, initial_call_time, nodes, graph, goals, outbound,
                  sample, neighbors, sample_node, neighboring_goals, child,
                  queue, ud_start, current_node, ii, ex_start, ex_node, trajs,
                  plan_result, timed_out, rp_calls, subplan_nonempty,
                  late_subplans, late_updates >>
  /\ UNCHANGED << errors, trajectory_vars, tracker_vars >>

----------------------------------------------------------------------------
(* Plan: "Wait around if we finish early", then return.                    *)

(* Variant: the comparison with max_runtime_ is the wrong way round.       *)
SleepTimeFlipped == IF Elapsed > max_runtime_ THEN Elapsed - max_runtime_ ELSE 0

SleepTime == IF Elapsed < max_runtime_ THEN max_runtime_ - Elapsed ELSE 0

PlanReturn ==
  /\ pc = "rp_return"
  /\ now' = now + SleepTime
  /\ plan_result' = traj
  /\ pc' = "returned"
  /\ UNCHANGED << initial_call_time, nodes, graph, goals, outbound, sample,
                  neighbors, sample_node, neighboring_goals, child, queue,
                  ud_start, current_node, ii, ex_start, ex_node, trajs, traj,
                  timed_out, rp_calls, subplan_nonempty, late_subplans,
                  late_updates >>
  /\ UNCHANGED << errors, trajectory_vars, tracker_vars >>

(* The graph and the goal set go out of scope; the planner can be called   *)
(* again.                                                                  *)
Release ==
  /\ pc = "returned"
  /\ pc' = "idle"
  /\ now' = 0
  /\ initial_call_time' = 0
  /\ nodes' = << >>
  /\ graph' = << >>
  /\ goals' = << >>
  /\ outbound' = TRUE
  /\ sample' = 0
  /\ neighbors' = << >>
  /\ sample_node' = NullNode
  /\ neighboring_goals' = << >>
  /\ child' = NullNode
  /\ queue' = << >>
  /\ ud_start' = NullNode
  /\ current_node' = NullNode
  /\ ii' = 0
  /\ ex_start' = NullNode
  /\ ex_node' = NullNode
  /\ trajs' = << >>
  /\ traj' = EmptyTrajectory
  /\ plan_result' = EmptyTrajectory
  /\ timed_out' = FALSE
  /\ rp_calls' = << >>
  /\ subplan_nonempty' = FALSE
  /\ late_subplans' = 0
  /\ late_updates' = 0
  /\ errors' = {}
  /\ UNCHANGED << trajectory_vars, tracker_vars >>

Next ==
  \/ \E start \in States, goal \in States, start_time \in StartTimes :
        Plan(start, goal, start_time)
  \/ \E x \in States : Sample(x)
  \/ AttachSkip
  \/ AttachSubPlan
  \/ AttachNone
  \/ GoalStep
  \/ ChildNull
  \/ Connect
  \/ BfsPop
  \/ BfsChild
  \/ BfsReturn
  \/ MarkAncestors
  \/ RanOutOfTime
  \/ ExtractStep
  \/ ExtractReturn
  \/ PlanReturn
  \/ Release

Spec == Init /\ [][Next]_vars

(* The thread that runs ExtractTrajectory keeps running: a pass of the     *)
(* while loop, or the return, that can be taken is taken.                  *)
FairSpec == Spec /\ WF_vars(ExtractStep) /\ WF_vars(ExtractReturn)

----------------------------------------------------------------------------
(* ExtractTrajectory as a function of its arguments: besides the calls     *)
(* RecursivePlan makes, it is called at an iteration boundary on the graph *)
(* built so far, from any node back to the initial node of either set.     *)

(* Creating a node takes a SubPlan call, which takes a step of the clock:  *)
(* a Plan call creates at most max_runtime_ nodes besides start and goal.  *)
NodeIds == 1..(max_runtime_ + 2)

ExtractCall(start, goal) ==
  /\ pc = "loop"
  /\ start \in {InitialNode(graph), InitialNode(goals)}
  /\ goal \in DOMAIN nodes
  /\ ex_start' = start
  /\ ex_node' = goal
  /\ trajs' = << >>
  /\ pc' = "extract"
  /\ UNCHANGED << now, initial_call_time, nodes, graph, goals, outbound,
                  sample, neighbors, sample_node, neighboring_goals, child,
                  queue, ud_start, current_node, ii, traj, plan_result,
                  timed_out, rp_calls, subplan_nonempty, late_subplans,
                  late_updates, errors >>
  /\ UNCHANGED << trajectory_vars, tracker_vars >>

ExtractNext ==
  \/ Next
  \/ \E start \in NodeIds, goal \in NodeIds : ExtractCall(start, goal)

ExtractSpec == Init /\ [][ExtractNext]_vars

(* UpdateDescendants runs to completion once called: nothing else runs on  *)
(* the planner's thread in between.                                        *)
UpdateFairSpec ==
  Spec /\ WF_vars(BfsPop) /\ WF_vars(BfsChild) /\ WF_vars(BfsReturn)

(* UpdateDescendants as a function: besides the calls Plan makes, it is     *)
(* called from any node of the graph once the goal loop has pushed a child  *)
(* onto sample_node's list and before the rewiring step has looked at it.   *)
UpdateCall(node, start) ==
  /\ pc = "connect"
  /\ node \in DOMAIN nodes
  /\ start \in {InitialNode(graph), InitialNode(goals)}
  /\ queue' = <<node>>
  /\ ud_start' = start
  /\ pc' = "bfs"
  /\ UNCHANGED << now, initial_call_time, nodes, graph, goals, outbound,
                  sample, neighbors, sample_node, neighboring_goals, child,
                  current_node, ii, ex_start, ex_node, trajs, traj,
                  plan_result, timed_out, rp_calls, subplan_nonempty,
                  late_subplans, late_updates, errors >>
  /\ UNCHANGED << trajectory_vars, tracker_vars >>

UpdateNext ==
  \/ Next
  \/ \E node \in NodeIds, start \in NodeIds : UpdateCall(node, start)

UpdateSpec == Init /\ [][UpdateNext]_vars

----------------------------------------------------------------------------
(* Trajectory<S> of trajectory.h: construction and Interpolate.  Indices   *)
(* are those of the code and start at 0: element k of a std::vector is     *)
(* element k + 1 of the sequence that models it.  A state is an integer    *)
(* and an interpolated state the fraction numer / denom.                   *)

MaxLen == 3

Samples == {0, 1}
Times == {0, 1, 2}
QueryTimes == { t - 1 : t \in Times } \cup { t + 1 : t \in Times }
Lists(S) == UNION { [1..k -> S] : k \in 0..MaxLen }

At(v, k) == v[k + 1]

Resize(v, n) == SubSeq(v, 1, n)

(* "truncate the longer one to match the smaller."                         *)
Truncate(states, times) ==
  IF Len(states) # Len(times)
  THEN IF Len(states) > Len(times)
       THEN [states |-> Resize(states, Len(times)), times |-> times]
       ELSE [states |-> states, times |-> Resize(times, Len(states))]
  ELSE [states |-> states, times |-> times]

(* The for loop from index at on (the code's ii): "if (times_[ii - 1] >    *)
(* times_[ii]) times_[ii] = times_[ii + 1];".  beyond is the value a read  *)
(* past the end of times_ yields.                                          *)
RECURSIVE FixInversions(_, _, _)
FixInversions(r, at, beyond) ==
  IF ~(at < Len(r.times)) THEN r
  ELSE IF At(r.times, at - 1) > At(r.times, at)
       THEN LET next == IF at + 1 < Len(r.times) THEN At(r.times, at + 1)
                        ELSE beyond
            IN FixInversions(
                 [times    |-> [r.times EXCEPT ![at + 1] = next],
                  fixed    |-> r.fixed + 1,
                  accessed |-> r.accessed \cup {at - 1, at, at + 1}],
                 at + 1, beyond)
       ELSE FixInversions([r EXCEPT !.accessed = @ \cup {at - 1, at}],
                          at + 1, beyond)

(* Trajectory(states, times).  A read past the end of times_ is undefined: *)
(* it yields some value or ends the process.                               *)
Construct(states, times, beyond) ==
  /\ traj_pc = "none"
  /\ LET cut == Truncate(states, times)
         r   == FixInversions([times |-> cut.times, fixed |-> 0,
                               accessed |-> {}], 1, beyond)
     IN /\ states_' = cut.states
        /\ times_' = r.times
        /\ ctor' = [truncated |-> Len(states) # Len(times),
                    fixed |-> r.fixed, accessed |-> r.accessed]
        /\ \/ traj_pc' = "constructed"
           \/ /\ \E k \in r.accessed : ~(k < Len(cut.times))
              /\ traj_pc' = "crashed"
  /\ UNCHANGED << interp, planner_vars, tracker_vars >>

(* Variant: std::upper_bound, the first element greater than t.            *)
UpperBound(times, t) ==
  LET n == Len(times)
      partitioned == \A a, b \in 1..n : (a < b /\ times[b] <= t) => times[a] <= t
  IN IF partitioned THEN { Cardinality({ k \in 1..n : times[k] <= t }) }
     ELSE 0..n

(* std::lower_bound: "the first element in times_ that does not compare    *)
(* less than t" (Len(times): end()).  On a list that is not partitioned    *)
(* with respect to t the result is unspecified.                            *)
LowerBound(times, t) ==
  LET n == Len(times)
      partitioned == \A a, b \in 1..n : (a < b /\ times[b] < t) => times[a] < t
  IN IF partitioned THEN { Cardinality({ k \in 1..n : times[k] < t }) }
     ELSE 0..n

(* "(1.0 - frac) * states_[lo] + frac * states_[hi]" with                  *)
(* frac = (t - times_[lo]) / (times_[hi] - times_[lo]).                    *)
Blend(t, lo, hi) ==
  LET denom == At(times_, hi) - At(times_, lo)
      numer == t - At(times_, lo)
  IN [numer |-> (denom - numer) * At(states_, lo) + numer * At(states_, hi),
      denom |-> denom]

(* Interpolate(t).  states_.front() on an empty vector is undefined: it    *)
(* yields some state or ends the process.                                  *)
Interpolate(t, iter, garbage) ==
  /\ traj_pc = "constructed"
  /\ iter \in LowerBound(times_, t)
  /\ IF iter = 0
     THEN IF Len(states_) = 0
          THEN \/ /\ interp' = [t |-> t, branch |-> "front", numer |-> garbage,
                                denom |-> 1, read |-> {0}, outcome |-> "returned"]
                  /\ traj_pc' = traj_pc
               \/ /\ interp' = [t |-> t, branch |-> "front", numer |-> 0,
                                denom |-> 1, read |-> {0}, outcome |-> "crashed"]
                  /\ traj_pc' = "crashed"
          ELSE /\ interp' = [t |-> t, branch |-> "front",
                             numer |-> At(states_, 0), denom |-> 1,
                             read |-> {0}, outcome |-> "returned"]
               /\ traj_pc' = traj_pc
     ELSE IF iter = Len(times_)
          THEN /\ interp' = [t |-> t, branch |-> "back",
                             numer |-> At(states_, Len(states_) - 1),
                             denom |-> 1, read |-> {Len(states_) - 1},
                             outcome |-> "returned"]
               /\ traj_pc' = traj_pc
          ELSE /\ interp' = [t |-> t, branch |-> "between",
                             numer |-> Blend(t, iter - 1, iter).numer,
                             denom |-> Blend(t, iter - 1, iter).denom,
                             read |-> {iter - 1, iter}, outcome |-> "returned"]
               /\ traj_pc' = traj_pc
  /\ UNCHANGED << states_, times_, ctor, planner_vars, tracker_vars >>

TrajectoryNext ==
  \/ \E states \in Lists(Samples), times \in Lists(Times), beyond \in Times :
        Construct(states, times, beyond)
  \/ \E t \in QueryTimes, iter \in 0..MaxLen, garbage \in Samples :
        Interpolate(t, iter, garbage)

TrajectorySpec == Init /\ [][TrajectoryNext]_vars

----------------------------------------------------------------------------
(* Tracker of tracker.h: Initialize, LoadParameters, RegisterCallbacks,    *)
(* run in a node whose parameters come from the launch file.               *)

(* The parameters the launch file can set for the tracker node that        *)
(* LoadParameters or RegisterCallbacks have a field for.                   *)
ParamKeys ==
  {"topic/tracker_state", "topic/planner_state", "topic/control",
   "srv/bound", "srv/planner_dynamics", "time_step"}

(* The launch file's default value of each parameter.                      *)
LaunchValue(key) ==
  CASE key = "topic/tracker_state"  -> "/state/tracker"
    [] key = "topic/planner_state"  -> "/state/planner"
    [] key = "topic/control"        -> "/fastrack/control"
    [] key = "srv/bound"            -> "/bound"
    [] key = "srv/planner_dynamics" -> "/planner_dynamics"
    [] key = "time_step"            -> "0.02"

(* The getParam calls of LoadParameters, in order.                         *)
LoadOrder ==
  << [key |-> "topic/tracker_state",  field |-> "tracker_state_topic_"],
     [key |-> "topic/planner_state",  field |-> "planner_state_topic_"],
     [key |-> "srv/bound",            field |-> "bound_name_"],
     [key |-> "srv/planner_dynamics", field |-> "planner_dynamics_name_"],
     [key |-> "time_step",            field |-> "time_step_"] >>

(* Variant: a missing parameter is passed over and loading goes on.        *)
RECURSIVE LoadParametersLenient(_, _, _)
LoadParametersLenient(server, obj, k) ==
  IF k > Len(LoadOrder) THEN [obj |-> obj, ok |-> TRUE]
  ELSE IF LoadOrder[k].key \notin server
       THEN LoadParametersLenient(server, obj, k + 1)
       ELSE LoadParametersLenient(
              server,
              [obj EXCEPT ![LoadOrder[k].field] = LaunchValue(LoadOrder[k].key)],
              k + 1)

(* LoadParameters from its k-th getParam on: "if (!nl.getParam(...))       *)
(* return false;".                                                         *)
RECURSIVE LoadParameters(_, _, _)
LoadParameters(server, obj, k) ==
  IF k > Len(LoadOrder) THEN [obj |-> obj, ok |-> TRUE]
  ELSE IF LoadOrder[k].key \notin server
       THEN [obj |-> obj, ok |-> FALSE]
       ELSE LoadParameters(
              server,
              [obj EXCEPT ![LoadOrder[k].field] = LaunchValue(LoadOrder[k].key)],
              k + 1)

(* What RegisterCallbacks registers, in order; it always returns true.     *)
RegisterCallbacks(obj) ==
  << [kind |-> "service",    name |-> obj.bound_name_],
     [kind |-> "service",    name |-> obj.planner_dynamics_name_],
     [kind |-> "subscriber", name |-> obj.planner_state_topic_],
     [kind |-> "subscriber", name |-> obj.tracker_state_topic_],
     [kind |-> "publisher",  name |-> obj.control_topic_],
     [kind |-> "timer",      name |-> obj.time_step_] >>

(* roslaunch starts the node with some of the parameters set, and the      *)
(* Tracker is constructed.                                                 *)
Launch(server) ==
  /\ tracker_pc = "none"
  /\ param_server' = server
  /\ tracker' = TrackerFields
  /\ tracker_pc' = "constructed"
  /\ UNCHANGED << steps, registered, ret, planner_vars, trajectory_vars >>

(* Initialize(n); value_ok is what value_.Initialize(n) returns.           *)
Initialize(value_ok) ==
  /\ tracker_pc = "constructed"
  /\ LET loaded == LoadParameters(param_server, tracker, 1) IN
       IF ~value_ok
       THEN /\ steps' = << [step |-> "value_.Initialize", ok |-> FALSE] >>
            /\ ret' = FALSE
            /\ UNCHANGED << tracker, registered >>
       ELSE IF ~loaded.ok
       THEN /\ steps' = << [step |-> "value_.Initialize", ok |-> TRUE],
                           [step |-> "LoadParameters", ok |-> FALSE] >>
            /\ tracker' = loaded.obj
            /\ ret' = FALSE
            /\ UNCHANGED registered
       ELSE /\ steps' = << [step |-> "value_.Initialize", ok |-> TRUE],
                           [step |-> "LoadParameters", ok |-> TRUE],
                           [step |-> "RegisterCallbacks", ok |-> TRUE] >>
            /\ registered' = RegisterCallbacks(loaded.obj)
            /\ tracker' = [loaded.obj EXCEPT !.initialized_ = TRUE]
            /\ ret' = TRUE
  /\ tracker_pc' = "returned"
  /\ UNCHANGED << param_server, planner_vars, trajectory_vars >>

TrackerNext ==
  \/ \E server \in SUBSET ParamKeys : Launch(server)
  \/ \E value_ok \in BOOLEAN : Initialize(value_ok)

TrackerSpec == Init /\ [][TrackerNext]_vars

----------------------------------------------------------------------------
(* Properties of Plan.                                                     *)

StartOf == InitialNode(graph)
GoalOf == InitialNode(goals)

FirstState(t) == t.states[1]
LastState(t) == t.states[Len(t.states)]

(* The nodes met walking best_parent links from node, at most fuel of them.*)
RECURSIVE Ancestors(_, _, _)
Ancestors(n, node, fuel) ==
  IF node = NullNode \/ fuel = 0 THEN << >>
  ELSE <<node>> \o Ancestors(n, n[node].best_parent, fuel - 1)

(* Walking best_parent links from node reaches nullptr within fuel steps.  *)
RECURSIVE ReachesRoot(_, _, _)
ReachesRoot(n, node, fuel) ==
  IF node = NullNode THEN TRUE
  ELSE IF fuel = 0 THEN FALSE
  ELSE ReachesRoot(n, n[node].best_parent, fuel - 1)

(* t is made of one sub-plan per best_parent link from g back to s, each   *)
(* going from the parent's state to the child's state, in order from s.    *)
PathAlongChain(t, n, s, g) ==
  LET chain == Ancestors(n, g, Len(n))
      links == Len(chain) - 1
  IN /\ links >= 1
     /\ chain[Len(chain)] = s
     /\ Size(t) = 2 * links
     /\ Len(t.times) = Size(t)
     /\ \A k \in 1..links :
          /\ t.states[2 * k - 1] = n[chain[Len(chain) - k + 1]].state
          /\ t.states[2 * k] = n[chain[Len(chain) - k]].state

GoalPathOutcome ==
  /\ ~timed_out
  /\ child = GoalOf
  /\ Size(plan_result) > 0
  /\ PathAlongChain(plan_result, nodes, StartOf, GoalOf)

LoopOutcome ==
  /\ timed_out
  /\ nodes[StartOf].best_parent # NullNode
  /\ Size(plan_result) > 0
  /\ FirstState(plan_result) = nodes[StartOf].state
  /\ LastState(plan_result) = nodes[StartOf].state

EmptyOutcome ==
  /\ plan_result = EmptyTrajectory
  /\ timed_out
  /\ Elapsed >= max_runtime_
  /\ child = NullNode
  /\ nodes[GoalOf].best_parent = NullNode
  /\ nodes[StartOf].best_parent = NullNode

\* C1: every Plan call returns exactly one of: a non-empty trajectory that
\* realizes the path from start to goal along the best_parent chain, a
\* non-empty loop anchored at start, or the empty trajectory; the empty
\* trajectory is returned only after max_runtime_ elapsed with neither a
\* goal connection nor a loop at start.
C1_PlanOutcomes ==
  pc = "returned" =>
    /\ GoalPathOutcome \/ LoopOutcome \/ EmptyOutcome
    /\ ~(GoalPathOutcome /\ LoopOutcome)
    /\ ~(GoalPathOutcome /\ EmptyOutcome)
    /\ ~(LoopOutcome /\ EmptyOutcome)

C1_Witness ==
  /\ pc = "returned"
  /\ GoalPathOutcome
  /\ nodes[StartOf].state = nodes[GoalOf].state
  /\ Len(nodes) > 3

\* C2: a non-empty trajectory returned by Plan begins in the start state and
\* ends in the goal state; a loop returned after the deadline begins and
\* ends in the start state.
C2_StartEndFidelity ==
  (pc = "returned" /\ Size(plan_result) > 0) =>
    /\ FirstState(plan_result) = nodes[StartOf].state
    /\ LastState(plan_result) =
         IF timed_out THEN nodes[StartOf].state ELSE nodes[GoalOf].state

C2_Witness ==
  /\ pc = "returned"
  /\ Size(plan_result) > 0
  /\ nodes[StartOf].state # nodes[GoalOf].state
  /\ FirstState(plan_result) # LastState(plan_result)

\* C3: when Plan returns a non-empty trajectory, every node on the
\* best_parent chain ExtractTrajectory walked (from the goal, or from the
\* loop anchor, back to start) is viable.
C3_ViabilityClosure ==
  (pc = "returned" /\ Size(plan_result) > 0) =>
    \A k \in DOMAIN Ancestors(nodes, IF timed_out THEN StartOf ELSE GoalOf, Len(nodes)) :
       nodes[Ancestors(nodes, IF timed_out THEN StartOf ELSE GoalOf, Len(nodes))[k]].is_viable

C3_Witness ==
  /\ pc = "returned"
  /\ Size(plan_result) > 0
  /\ Len(Ancestors(nodes, GoalOf, Len(nodes))) = 3
  /\ sample_node \in 3..Len(nodes)
  /\ nodes[sample_node].is_viable

\* C4: in every state of a Plan call, following best_parent links from any
\* node reaches a node without best parent: the relation has no cycle.
C4_BestParentAcyclic ==
  \A id \in DOMAIN nodes : ReachesRoot(nodes, id, Len(nodes))

C4_Witness ==
  /\ pc = "mark"
  /\ Len(nodes) > 3
  /\ nodes[GoalOf].best_parent = sample_node
  /\ nodes[sample_node].best_parent = StartOf

\* C5: after an outbound iteration that attached sample_node but connected
\* it to no goal, a return traversal (a RecursivePlan call that is not
\* outbound) has been started from sample_node before the next sample is
\* drawn, unless the node is already viable.
C5_RecursiveEscape ==
  (pc = "loop" /\ outbound) =>
    \A id \in DOMAIN nodes :
       (id # StartOf /\ id # GoalOf) =>
          \/ nodes[id].is_viable
          \/ \E k \in DOMAIN rp_calls :
                ~rp_calls[k].outbound /\ rp_calls[k].root = id

\* C6: when the main loop is left because max_runtime_ elapsed, a call that
\* is not outbound returns the empty trajectory; an outbound call extracts
\* the loop from start to start if start has a best parent, and returns the
\* empty trajectory without extracting anything otherwise.
C6_TimeoutResult ==
  timed_out =>
    /\ Elapsed >= max_runtime_
    /\ pc \in {"extract", "rp_return", "returned"}
    /\ IF ~outbound \/ nodes[StartOf].best_parent = NullNode
       THEN pc # "extract" /\ traj = EmptyTrajectory /\ ex_start = NullNode
       ELSE /\ ex_start = StartOf
            /\ pc # "extract" => traj = Concatenate(trajs)

C6_Witness ==
  /\ pc = "rp_return"
  /\ timed_out
  /\ outbound
  /\ Len(nodes) > 2
  /\ traj = EmptyTrajectory

\* C7: as long as every SubPlan call has returned the empty trajectory, no
\* node has been created or attached, the goal node is as Plan set it up,
\* and what Plan returns is the empty trajectory.
C7_AllSubPlansEmpty ==
  (pc # "idle" /\ ~subplan_nonempty) =>
    /\ Len(nodes) = 2
    /\ graph = <<1>>
    /\ nodes[StartOf].children = << >>
    /\ nodes[StartOf].trajs_to_children = << >>
    /\ nodes[GoalOf].best_parent = NullNode
    /\ nodes[GoalOf].time = kInfinity
    /\ nodes[GoalOf].cost_to_come = kInfinity
    /\ sample_node = NullNode
    /\ pc \in {"rp_return", "returned"} => (timed_out /\ traj = EmptyTrajectory)
    /\ pc = "returned" => plan_result = EmptyTrajectory

C7_Witness ==
  /\ pc = "returned"
  /\ ~subplan_nonempty
  /\ timed_out
  /\ plan_result = EmptyTrajectory

\* C8: counting each SubPlan call and each UpdateDescendants run as one time
\* step, at most one SubPlan call and at most one UpdateDescendants run begin
\* after max_runtime_ has elapsed, the loop is only left for the deadline at
\* an iteration boundary, and Plan returns at most two steps late.
C8_DeadlineOverrun ==
  /\ late_subplans <= 1
  /\ late_updates <= 1
  /\ (pc \in {"attach", "goals", "connect", "bfs", "mark"}) => ~timed_out
  /\ pc = "returned" => Elapsed <= max_runtime_ + 2

C8_Witness ==
  /\ pc = "returned"
  /\ late_subplans = 1
  /\ late_updates = 1
  /\ Elapsed = max_runtime_ + 2

\* C9: Plan never returns before max_runtime_ has elapsed since its call, and
\* what it returns is the trajectory RecursivePlan produced.
C9_WaitsOutBudget ==
  pc = "returned" =>
    /\ Elapsed >= max_runtime_
    /\ plan_result = traj

C9_Witness ==
  /\ pc = "returned"
  /\ Size(plan_result) > 0
  /\ Len(nodes) = 3
  /\ Elapsed = max_runtime_
  /\ late_subplans = 0
  /\ late_updates = 0

(* An UpdateDescendants run of this Plan call has returned.                *)
AfterUpdateDescendants ==
  /\ pc \in {"mark", "extract", "rp_return", "returned"}
  /\ child # NullNode
  /\ nodes[child].best_parent = sample_node

\* C11: after an UpdateDescendants run, for every node n and every node p
\* that has n among its children, n.cost_to_come is at most p.cost_to_come
\* plus the cost of the edge from p to n, and equal to it when p is n's best
\* parent.
C11_RewiringOptimality ==
  AfterUpdateDescendants =>
    \A p \in DOMAIN nodes : \A k \in DOMAIN nodes[p].children :
       LET n == nodes[p].children[k]
           through == nodes[p].cost_to_come + Cost(nodes[p].trajs_to_children[k])
       IN /\ nodes[n].cost_to_come <= through
          /\ nodes[n].best_parent = p => nodes[n].cost_to_come = through

C11_Witness ==
  /\ AfterUpdateDescendants
  /\ pc = "mark"
  /\ Len(nodes) > 3
  /\ nodes[child].cost_to_come =
       nodes[sample_node].cost_to_come
         + Cost(nodes[sample_node].trajs_to_children[1])
  /\ nodes[child].cost_to_come > 0

Members(set) == { set[i] : i \in DOMAIN set }

SampleNodes == { i \in DOMAIN nodes : i # StartOf /\ i # GoalOf }

\* C13: every sample node created by the attach step is in the graph set
\* by the time the iteration that created it is over, where later KnnSearch
\* calls can return it.
C13_SampleInserted ==
  pc = "loop" => \A i \in SampleNodes : i \in Members(graph)

\* C14: a sample within epsilon of an existing node is rejected, so no two
\* distinct nodes created by the attach step of one Plan call have states
\* within epsilon of each other.
C14_NoCoincidentNodes ==
  \A i, j \in SampleNodes :
     i # j => ~WithinEpsilon(nodes[i].state, nodes[j].state)

NonDecreasing(times) ==
  \A k \in 1..(Len(times) - 1) : times[k] <= times[k + 1]

\* C15: the timestamps of every trajectory Plan returns are non-decreasing,
\* and each edge sub-trajectory after the first starts at the last timestamp
\* of the one before it.
C15_TimesNonDecreasing ==
  pc = "returned" =>
    /\ Len(plan_result.times) = Size(plan_result)
    /\ NonDecreasing(plan_result.times)
    /\ \A k \in 1..(Size(plan_result) - 1) :
         k % 2 = 0 => plan_result.times[k + 1] = plan_result.times[k]

C15_Witness ==
  /\ pc = "returned"
  /\ Size(plan_result) >= 4
  /\ plan_result.times[Len(plan_result.times)] > plan_result.times[1]
  /\ NonDecreasing(plan_result.times)

\* C20: UpdateDescendants changes the best_parent, time or cost_to_come of
\* a node only when the node is the child being visited and either has no
\* best parent or has a best parent whose cost to come exceeds the current
\* node's; it never changes is_viable, state or a children list.
C20_ReattachOnlyIfBetter ==
  [][ pc = "bfs" =>
        \A c \in DOMAIN nodes \cap DOMAIN nodes' :
           /\ nodes'[c].is_viable = nodes[c].is_viable
           /\ nodes'[c].state = nodes[c].state
           /\ nodes'[c].children = nodes[c].children
           /\ (\/ nodes'[c].best_parent # nodes[c].best_parent
               \/ nodes'[c].time # nodes[c].time
               \/ nodes'[c].cost_to_come # nodes[c].cost_to_come)
                => /\ InForLoop
                   /\ c = nodes[current_node].children[ii]
                   /\ nodes'[c].best_parent = current_node
                   /\ \/ nodes[c].best_parent = NullNode
                      \/ nodes[nodes[c].best_parent].cost_to_come
                           > nodes[current_node].cost_to_come
    ]_vars

(* The places of node c in the children list of node p.                    *)
EdgesTo(n, p, c) == { k \in DOMAIN n[p].children : n[p].children[k] = c }

\* C21: after an UpdateDescendants run and at every iteration boundary of
\* the main loop, every node with a best parent p has its time equal to
\* p's time plus the duration of the edge from p to it; a goal connected
\* through sample_node has time sample_node.time + Duration(sub-plan) and no
\* longer kInfinity.
C21_TimeConsistency ==
  (AfterUpdateDescendants \/ pc = "loop") =>
     /\ \A c \in DOMAIN nodes :
          LET p == nodes[c].best_parent IN
          p # NullNode =>
            /\ EdgesTo(nodes, p, c) # {}
            /\ \A k \in EdgesTo(nodes, p, c) :
                 nodes[c].time =
                   nodes[p].time + Duration(nodes[p].trajs_to_children[k])
     /\ AfterUpdateDescendants =>
          /\ nodes[child].time # kInfinity
          /\ \E k \in EdgesTo(nodes, sample_node, child) :
               nodes[child].time =
                 nodes[sample_node].time
                   + Duration(nodes[sample_node].trajs_to_children[k])

C21_Witness ==
  /\ AfterUpdateDescendants
  /\ pc = "rp_return"
  /\ nodes[sample_node].time > nodes[StartOf].time
  /\ nodes[child].time > nodes[sample_node].time
  /\ nodes[child].time < kInfinity

\* C22: at every iteration boundary of the main loop and when RecursivePlan
\* and Plan return, every ancestor (along best_parent links) of a viable
\* node is viable, also after the rewiring step has given a viable goal a
\* new best parent.
C22_ViableAncestors ==
  pc \in {"loop", "extract", "rp_return", "returned"} =>
    \A c \in DOMAIN nodes :
       nodes[c].is_viable =>
         \A a \in Members(Ancestors(nodes, c, Len(nodes))) : nodes[a].is_viable

C22_Witness ==
  /\ pc = "rp_return"
  /\ ~timed_out
  /\ nodes[GoalOf].is_viable
  /\ nodes[GoalOf].best_parent = sample_node
  /\ nodes[sample_node].is_viable
  /\ nodes[sample_node].best_parent = StartOf
  /\ \E c \in SampleNodes : ~nodes[c].is_viable

(* Following child edges from node leads, within fuel steps, to a viable   *)
(* node of the goal set.                                                   *)
RECURSIVE LeadsToGoal(_, _, _)
LeadsToGoal(n, node, fuel) ==
  /\ fuel > 0
  /\ \E k \in DOMAIN n[node].children :
        LET c == n[node].children[k] IN
        \/ c \in Members(goals) /\ n[c].is_viable
        \/ LeadsToGoal(n, c, fuel - 1)

\* C23: in every state, a node other than the start and goal nodes is
\* viable only if child edges lead from it to a viable node of the goal set;
\* a sample node that was never connected to a goal is not viable.
C23_ViableOnlyIfConnected ==
  \A c \in SampleNodes :
     nodes[c].is_viable => LeadsToGoal(nodes, c, Len(nodes))

C23_Witness ==
  /\ pc = "extract"
  /\ \E c \in SampleNodes :
        /\ nodes[c].is_viable
        /\ LeadsToGoal(nodes, c, Len(nodes))
  /\ \E c \in SampleNodes :
        /\ ~nodes[c].is_viable
        /\ nodes[c].children = << >>

\* C24: the attach step tries the neighbors in the order KnnSearch returned
\* them, nearest first; it calls SubPlan only for a neighbor that is not
\* within epsilon of the sample; on the first non-empty sub-plan it creates
\* one node with best_parent that neighbor, is_viable false, time and
\* cost_to_come the neighbor's plus the sub-plan's duration and cost, and
\* leaves the loop without trying later neighbors; an iteration creates at
\* most one node.
C24_AttachStep ==
  [][ /\ (pc = "loop" /\ pc' = "attach") =>
           \A i, j \in DOMAIN neighbors' :
              i < j => Distance(nodes[neighbors'[i]].state, sample')
                         <= Distance(nodes[neighbors'[j]].state, sample')
      /\ (pc = "attach" /\ now' # now) =>
           /\ neighbors # << >>
           /\ nodes[Head(neighbors)].state # sample
           /\ sample_node = NullNode
      /\ (pc = "attach" /\ pc' = "attach") =>
           /\ neighbors' = Tail(neighbors)
           /\ nodes' = nodes
           /\ sample_node' = NullNode
      /\ (pc # "idle" /\ Len(nodes') > Len(nodes)) =>
           LET nb  == Head(neighbors)
               id  == Len(nodes) + 1
               sub == nodes'[nb].trajs_to_children[Len(nodes'[nb].children)]
           IN /\ pc = "attach"
              /\ pc' = "goals"
              /\ sample_node = NullNode
              /\ sample_node' = id
              /\ Len(nodes') = id
              /\ now' = now + 1
              /\ Size(sub) > 0
              /\ nodes'[nb].children = Append(nodes[nb].children, id)
              /\ nodes'[nb].trajs_to_children
                   = Append(nodes[nb].trajs_to_children, sub)
              /\ nodes'[id].state = sample
              /\ nodes'[id].best_parent = nb
              /\ nodes'[id].is_viable = FALSE
              /\ nodes'[id].time = nodes[nb].time + Duration(sub)
              /\ nodes'[id].cost_to_come = nodes[nb].cost_to_come + Cost(sub)
              /\ nodes'[id].children = << >>
      /\ (pc \notin {"loop", "returned"} /\ sample_node # NullNode) =>
           sample_node' = sample_node
    ]_vars

C24_Witness ==
  /\ pc = "goals"
  /\ sample_node = Len(nodes)
  /\ Len(nodes) > 3
  /\ nodes[sample_node].state = sample
  /\ nodes[sample_node].best_parent = StartOf
  /\ ~nodes[sample_node].is_viable
  /\ nodes[sample_node].time > nodes[StartOf].time
  /\ late_subplans = 0

(* The walk of ExtractTrajectory is at a node equal to start with at least *)
(* one edge accumulated.                                                   *)
AtStartWithEdge ==
  /\ nodes[ex_node].state = nodes[ex_start].state
  /\ Len(trajs) >= 1

\* C25: ExtractTrajectory terminates on every graph of a Plan call: each
\* pass of its loop moves one best_parent link up a chain that shortens,
\* and the walk is eventually over.  It stops exactly when the current node
\* equals start and at least one edge has been accumulated, so Plan with the
\* start and goal states equal returns the whole path from start to goal,
\* not an empty trajectory, when a connection is found.
C25_ExtractStops ==
  /\ [][ /\ (pc = "extract" /\ pc' = "extract") =>
              /\ ~AtStartWithEdge
              /\ ex_node' = nodes[ex_node].best_parent
              /\ Len(Ancestors(nodes', ex_node', Len(nodes')))
                   < Len(Ancestors(nodes, ex_node, Len(nodes)))
         /\ (pc = "extract" /\ pc' # "extract") =>
              /\ AtStartWithEdge
              /\ pc' = "rp_return"
              /\ traj' = Concatenate(trajs)
              /\ Size(traj') > 0
       ]_vars
  /\ [](pc = "returned" /\ ~timed_out /\ child # NullNode
          /\ nodes[StartOf].state = nodes[GoalOf].state
        => PathAlongChain(plan_result, nodes, StartOf, GoalOf))
  /\ (pc = "extract" ~> pc = "rp_return")

C25_Witness ==
  /\ pc = "returned"
  /\ ~timed_out
  /\ child = GoalOf
  /\ nodes[StartOf].state = nodes[GoalOf].state
  /\ Size(plan_result) >= 4
  /\ FirstState(plan_result) = LastState(plan_result)

Visited == nodes[current_node].children[ii]

\* C27: UpdateDescendants never reads a field of a null best_parent: the
\* reattachment test, which reads child.best_parent.cost_to_come of the child
\* being visited whenever its first operand is false, is never evaluated on a
\* child whose best_parent is null, and the call never stops on that read.
C27_NoNullRead ==
  /\ pc # "crashed"
  /\ pc = "bfs" /\ InForLoop => nodes[Visited].best_parent # NullNode

(* The nodes on the children list of a node of S.                          *)
Children(n, S) ==
  UNION { { n[x].children[k] : k \in DOMAIN n[x].children } : x \in S }

(* The nodes reached from the nodes of S along at most fuel child links.   *)
RECURSIVE Descendants(_, _, _)
Descendants(n, S, fuel) ==
  IF fuel = 0 THEN S
  ELSE Descendants(n, S \cup Children(n, S), fuel - 1)

(* No node is reached from its own children: the child relation of n has   *)
(* no cycle.                                                               *)
NoChildCycle(n) ==
  \A x \in DOMAIN n : x \notin Descendants(n, Children(n, {x}), Len(n))

C29_ParentChildConsistency ==
  /\ \A x \in DOMAIN nodes :
        nodes[x].best_parent # NullNode =>
          EdgesTo(nodes, nodes[x].best_parent, x) # {}
  /\ (/\ pc = "extract"
      /\ ExtractCondition(nodes, ex_node, ex_start, trajs)
      /\ nodes[ex_node].best_parent # NullNode)
       => FindChild(nodes, nodes[ex_node].best_parent, ex_node)
            \in EdgesTo(nodes, nodes[ex_node].best_parent, ex_node)
  /\ "Parent/child inconsistency." \notin errors

----------------------------------------------------------------------------
(* Properties of Trajectory.                                               *)

(* The interpolated state v is the state x.                                *)
IsState(v, x) == v.denom # 0 /\ v.numer = x * v.denom

Interpolated ==
  /\ traj_pc = "constructed"
  /\ interp.outcome = "returned"
  /\ Len(states_) > 0
  /\ Len(states_) = Len(times_)
  /\ NonDecreasing(times_)

\* C16: on a non-empty trajectory with non-decreasing times, repeated
\* timestamps included, Interpolate(t[i]) returns states[i] for every
\* index i.
C16_InterpolationIdempotence ==
  Interpolated =>
    \A i \in 0..(Len(times_) - 1) :
       At(times_, i) = interp.t => IsState(interp, At(states_, i))

\* C16, amended: on a non-empty trajectory with non-decreasing times,
\* Interpolate(t[i]) returns states[i] for every index i that is the first
\* to carry its timestamp, so for every index when the times strictly
\* increase; of several samples with one timestamp it returns the first.
C16_FirstOfTimestamp ==
  Interpolated =>
    \A i \in 0..(Len(times_) - 1) :
       (At(times_, i) = interp.t /\ (i > 0 => At(times_, i - 1) < interp.t))
         => IsState(interp, At(states_, i))

C16_Witness ==
  /\ Interpolated
  /\ interp.branch = "between"
  /\ \E i \in 1..(Len(times_) - 2) :
        /\ At(times_, i) = interp.t
        /\ At(times_, i - 1) < interp.t
        /\ At(times_, i + 1) = interp.t
        /\ At(states_, i + 1) # At(states_, i)
        /\ IsState(interp, At(states_, i))

\* C17: Interpolate on an empty trajectory fails with EMPTY_TRAJECTORY and
\* reads no element of the state list.
C17_EmptyInterpolate ==
  (interp.branch # "none" /\ Len(states_) = 0) =>
     /\ interp.outcome = "EMPTY_TRAJECTORY"
     /\ interp.read = {}

\* C18: after construction from any lists of states and times the stored
\* lists have equal length and the stored times are non-decreasing.
C18_ConstructedSorted ==
  traj_pc = "constructed" =>
     /\ Len(states_) = Len(times_)
     /\ NonDecreasing(times_)

\* C30: the inversion repair of the constructor reads and writes only
\* indices of the list of times: every index it accesses is at least 0 and
\* less than the length of the list, also when the inversion is at the last
\* element.
C30_RepairInBounds ==
  traj_pc # "none" => \A k \in ctor.accessed : 0 <= k /\ k < Len(times_)

----------------------------------------------------------------------------
(* Properties of Tracker.                                                  *)

InitializeOrder == <<"value_.Initialize", "LoadParameters", "RegisterCallbacks">>

(* The parameters LoadParameters asks for.                                 *)
Required == { LoadOrder[k].key : k \in DOMAIN LoadOrder }

\* C19: Initialize runs the value function's initialization, LoadParameters
\* and RegisterCallbacks in that order and stops at the first step that
\* fails.  It returns true and sets initialized_ exactly when all three
\* succeeded; otherwise it returns false and initialized_ stays false.  When
\* a required parameter is missing, RegisterCallbacks is not run and no
\* service, subscriber, publisher or timer is registered.
C19_InitializeOrder ==
  /\ tracker_pc # "returned" =>
       /\ ~tracker.initialized_
       /\ registered = << >>
       /\ steps = << >>
  /\ tracker_pc = "returned" =>
       /\ Len(steps) \in 1..Len(InitializeOrder)
       /\ \A k \in DOMAIN steps :
            /\ steps[k].step = InitializeOrder[k]
            /\ k < Len(steps) => steps[k].ok
       /\ ret = (Len(steps) = Len(InitializeOrder) /\ steps[Len(steps)].ok)
       /\ tracker.initialized_ = ret
       /\ ~ret => registered = << >>
       /\ ret => Len(registered) > 0
       /\ ~(Required \subseteq param_server) =>
            /\ ret = FALSE
            /\ \A k \in DOMAIN steps : steps[k].step # "RegisterCallbacks"
            /\ registered = << >>

C19_Witness ==
  /\ tracker_pc = "returned"
  /\ Len(steps) > 1
  /\ steps[Len(steps)] = [step |-> "LoadParameters", ok |-> FALSE]
  /\ "topic/tracker_state" \in param_server
  /\ "time_step" \notin param_server
  /\ tracker.tracker_state_topic_ # ""
  /\ ret = FALSE
  /\ registered = << >>

\* C31: after Initialize has returned true, the tracker state topic, the
\* planner state topic, the control topic, the bound service name and the
\* planner dynamics service name all hold the values configured for them,
\* no name handed to RegisterCallbacks is empty, and the control publisher
\* is advertised on the configured control topic.
C31_NamesLoaded ==
  (tracker_pc = "returned" /\ ret) =>
     /\ tracker.tracker_state_topic_ = LaunchValue("topic/tracker_state")
     /\ tracker.planner_state_topic_ = LaunchValue("topic/planner_state")
     /\ tracker.control_topic_ = LaunchValue("topic/control")
     /\ tracker.bound_name_ = LaunchValue("srv/bound")
     /\ tracker.planner_dynamics_name_ = LaunchValue("srv/planner_dynamics")
     /\ \A k \in DOMAIN registered : registered[k].name # ""
     /\ \E k \in DOMAIN registered :
          registered[k] = [kind |-> "publisher",
                           name |-> LaunchValue("topic/control")]

====
